---- MODULE Spec2Model ----
(***************************************************************************)
(* A model of bioconvert/core/base.py.                                     *)
(*                                                                         *)
(*   - ConvBase.execute / ConvBase._execute: the engine that spawns a      *)
(*     shell command, drains its two pipes and classifies the exit code,   *)
(*     run against a child process that writes, blocks, closes its         *)
(*     streams and exits on its own schedule (specification Spec).         *)
(*   - ConvMeta.__init__: the metaclass check of a converter class         *)
(*     (specification SpecMeta).                                           *)
(*                                                                         *)
(* Python strings are sequences of one-character strings, bytes read from  *)
(* a pipe are sequences of small integers.                                 *)
(***************************************************************************)
EXTENDS Integers, Sequences, FiniteSets, TLC

\* ------------------------------------------------------------------ bounds

\* calls of execute made on the one converter instance
MaxCalls == 2
\* chunks an OS pipe holds before a write to it blocks
PipeCap == 1
\* chunks a child writes in its life, over both streams
MaxWrites == 3
\* the wall clock stops advancing here
MaxClock == 2
\* characters in the name of a converter class
MaxNameLen == 3
\* elements in a list, tuple or set of extensions
MaxSeqLen == 2

\* --------------------------------------------------------- values of Python

None == [t |-> "None", v |-> <<>>]
Unbound == [t |-> "unbound", v |-> <<>>]
StringIO(text) == [t |-> "StringIO", v |-> text]
Str(text) == [t |-> "str", v |-> text]

Flows == {"stdout", "stderr"}
Other(flow) == IF flow = "stdout" THEN "stderr" ELSE "stdout"

\* a call's outcome, as its caller sees it
Pending == [t |-> "pending", exc |-> "", head |-> "", v |-> None]
Return(val) == [t |-> "return", exc |-> "", head |-> "", v |-> val]
Raise(exc, head, val) == [t |-> "raise", exc |-> exc, head |-> head, v |-> val]

\* the head of the message of the RuntimeError raised when Popen fails
FailedToExecute == "Failed to execute Command"

\* ------------------------------------------------------------ pure helpers

\* the byte 0 is a newline; the byte k > 0 is the k-th letter
Letters == <<"a", "b", "c", "d", "e", "f", "g", "h">>
NewlineByte == 0
\* the byte 0xff, which no UTF-8 text holds
InvalidByte == 255

\* what stands for the UnicodeDecodeError that bytes.decode raises
UnicodeDecodeError == <<"UnicodeDecodeError">>

\* data.decode("utf-8"): the text, or the error on a byte that is not UTF-8
decode(bytes) ==
  IF \E i \in 1..Len(bytes) : bytes[i] = InvalidByte
  THEN UnicodeDecodeError
  ELSE [i \in 1..Len(bytes) |->
          IF bytes[i] = NewlineByte THEN "\n" ELSE Letters[bytes[i]]]

IsSpace(ch) == ch \in {"\n", " ", "\t"}

RECURSIVE lstrip(_)
lstrip(text) ==
  IF text # <<>> /\ IsSpace(Head(text)) THEN lstrip(Tail(text)) ELSE text

RECURSIVE rstrip(_)
rstrip(text) ==
  IF text # <<>> /\ IsSpace(text[Len(text)])
  THEN rstrip(SubSeq(text, 1, Len(text) - 1))
  ELSE text

strip(text) == rstrip(lstrip(text))

\* list.remove(x): the list without the first occurrence of x
RECURSIVE remove(_, _)
remove(list, x) ==
  IF list = <<>> THEN <<>>
  ELSE IF Head(list) = x THEN Tail(list)
  ELSE <<Head(list)>> \o remove(Tail(list), x)

\* the bytes of a sequence of chunks, in order
RECURSIVE concat(_)
concat(chunks) ==
  IF chunks = <<>> THEN <<>> ELSE Head(chunks) \o concat(Tail(chunks))

RECURSIVE filter(_, _)
filter(list, keep) ==
  IF list = <<>> THEN <<>>
  ELSE IF Head(list) \in keep THEN <<Head(list)>> \o filter(Tail(list), keep)
  ELSE filter(Tail(list), keep)

\* ------------------------------------------- ConvMeta: values and helpers

\* a name the class namespace does not bind
Absent == [t |-> "absent", v |-> <<>>]
\* an element of a sequence that is not a str
IntElem == [t |-> "int", v |-> <<>>]
Seq_(kind, elems) == [t |-> kind, v |-> elems]

ConvBaseName == <<"C", "o", "n", "v", "B", "a", "s", "e">>

\* str.upper, character by character
UpperChar(ch) ==
  CASE ch = "a" -> "A" [] ch = "o" -> "O" [] ch = "n" -> "N"
    [] ch = "v" -> "V" [] ch = "s" -> "S" [] ch = "e" -> "E"
    [] OTHER -> ch

upper(chars) == [i \in 1..Len(chars) |-> UpperChar(chars[i])]

\* startswith with another prefix than '.': no extension passes the test
startswith_other(chars) == chars # <<>> /\ Head(chars) = ","

\* one_ext.startswith('.')
startswith_dot(chars) == chars # <<>> /\ Head(chars) = "."

\* '2' in name
Has2(chars) == \E i \in 1..Len(chars) : chars[i] = "2"

\* the position of the last '2', as rsplit('2', 1) would take it
Last2(chars) ==
  CHOOSE i \in 1..Len(chars) :
    chars[i] = "2" /\ \A j \in (i + 1)..Len(chars) : chars[j] # "2"

\* the position of the first '2'
First2(chars) ==
  CHOOSE i \in 1..Len(chars) :
    chars[i] = "2" /\ \A j \in 1..(i - 1) : chars[j] # "2"

\* name.upper().split('2', 1): the text before the first '2' and all the
\* text after it
split2(chars) ==
  <<SubSeq(chars, 1, First2(chars) - 1),
    SubSeq(chars, First2(chars) + 1, Len(chars))>>

\* the test of line 69 made on the first element alone
AllStr_FirstOnly(elems) == elems = <<>> \/ elems[1].t = "str"

\* isinstance(one_ext, str) for every element
AllStr(elems) == \A i \in 1..Len(elems) : elems[i].t = "str"

\* one_ext.startswith('.') for every element
AllDotted(elems) == \A i \in 1..Len(elems) : startswith_dot(elems[i].v)

\* lines 74-79 without the test of line 76: a '.' put before every element
fixed_ext_DotsAll(elems) ==
  [i \in 1..Len(elems) |-> Str(<<".">> \o elems[i].v)]

\* lines 74-79: every element, with a '.' put before those that lack it
fixed_ext(elems) ==
  [i \in 1..Len(elems) |->
     IF startswith_dot(elems[i].v) THEN elems[i]
     ELSE Str(<<".">> \o elems[i].v)]

NoError == [exc |-> "", text |-> "", cls |-> <<>>, io |-> ""]
TypeError(text, clsname, io_name) ==
  [exc |-> "TypeError", text |-> text, cls |-> clsname, io |-> io_name]

MustFollowConvention == "converter name must follow convention input2output"
MustBeString == "each element of the class attribute must be a string"
MustBeSpecified ==
  "the class attribute must be specified in the class or subclasses"

ExtAttr(io_name) == IF io_name = "input" THEN "input_ext" ELSE "output_ext"

\* setattr(cls, attr, value)
setattr(cls, attr, value) == [cls EXCEPT !.dict[attr] = value]

\* getattr(cls, attr): the class's own namespace, then its bases'
RECURSIVE getattr(_, _, _)
getattr(cls, attr, registry) ==
  IF cls.dict[attr].t # "absent" THEN cls.dict[attr]
  ELSE IF cls.base = 0 THEN Absent
  ELSE getattr(registry[cls.base], attr, registry)

\* check_ext, lines 53-88: the class as it leaves it, the TypeError it
\* raises, and whether it logged the warning of line 85
check_ext(cls, ext, io_name) ==
  CASE ext.t = "str" ->
         [cls |-> setattr(cls, ExtAttr(io_name),
                          Seq_("tuple",
                               <<IF startswith_dot(ext.v) THEN ext
                                 ELSE Str(<<".">> \o ext.v)>>)),
          raised |-> NoError, warned |-> FALSE]
    [] ext.t \in {"list", "tuple", "set"} ->
         IF ~AllStr(ext.v)
         THEN [cls |-> cls,
               raised |-> TypeError(MustBeString, cls.name, io_name),
               warned |-> FALSE]
         ELSE IF ~AllDotted(ext.v)
         THEN [cls |-> setattr(cls, ExtAttr(io_name),
                               Seq_("list", fixed_ext(ext.v))),
               raised |-> NoError, warned |-> FALSE]
         ELSE [cls |-> cls, raised |-> NoError, warned |-> FALSE]
    [] OTHER ->
         [cls |-> cls,
          raised |-> TypeError(MustBeSpecified, cls.name, io_name),
          warned |-> TRUE]

\* lines 98-99
SetFormats(cls, fmts) ==
  setattr(setattr(cls, "input_fmt", Str(fmts[1])), "output_fmt", Str(fmts[2]))

\* the name the checks of ConvMeta.__init__ pass over, line 90
Exempt(name) == name = ConvBaseName

\* ConvMeta.__init__ with the extensions checked before the name
ConvMeta__init__ExtFirst(cls, registry) ==
  IF Exempt(cls.name)
  THEN [cls |-> cls, raised |-> NoError, warned |-> FALSE]
  ELSE
    LET inp == check_ext(cls, getattr(cls, "input_ext", registry), "input")
    IN
      IF inp.raised # NoError THEN inp
      ELSE
        LET out == check_ext(inp.cls,
                             getattr(inp.cls, "output_ext", registry),
                             "output")
        IN
          IF out.raised # NoError THEN out
          ELSE IF ~Has2(cls.name)
          THEN [cls |-> out.cls,
                raised |-> TypeError(MustFollowConvention, <<>>, ""),
                warned |-> FALSE]
          ELSE [cls |-> SetFormats(out.cls, split2(upper(cls.name))),
                raised |-> NoError, warned |-> FALSE]

\* ConvMeta.__init__, lines 90-99, on the class type.__new__ has made
ConvMeta__init__(cls, registry) ==
  IF Exempt(cls.name)
  THEN [cls |-> cls, raised |-> NoError, warned |-> FALSE]
  ELSE IF ~Has2(cls.name)
  THEN [cls |-> cls, raised |-> TypeError(MustFollowConvention, <<>>, ""),
        warned |-> FALSE]
  ELSE
    LET fmts == split2(upper(cls.name))
        inp == check_ext(cls, getattr(cls, "input_ext", registry), "input")
    IN
      IF inp.raised # NoError THEN inp
      ELSE
        LET out == check_ext(inp.cls,
                             getattr(inp.cls, "output_ext", registry),
                             "output")
        IN
          IF out.raised # NoError THEN out
          ELSE [cls |-> SetFormats(out.cls, fmts), raised |-> NoError,
                warned |-> FALSE]

\* ------------------------------------------------------------------- state

VARIABLES
  \* ConvMeta: the classes defined so far, the class statement executed
  \* last and how it ended
  types, stmt, defined,
  \* ConvBase.execute / _execute: the caller's position, the call's
  \* arguments and locals
  pc, callNo, cmd, ignore_errors, verbose, inputs, readable, idx, data,
  output, errors, returncode, t1,
  \* the converter instance
  last_duration, _last_time,
  \* the OS: the child process, its pipes, the clock, whether a process can
  \* be created, what was logged and printed to sys.stderr
  child, pipe, oserr, clock, log, stderr_printed,
  \* the process the shell command left in the background, which holds the
  \* write ends of both pipes while it runs
  background,
  \* what _execute handed to execute, what execute handed to its caller
  inner, result,
  \* history: all the bytes the child wrote, and the call that last stored
  \* last_duration
  written, durationBy

metaVars == <<types, stmt, defined>>
callVars == <<callNo, cmd, ignore_errors, verbose, oserr, t1>>
loopVars == <<inputs, readable, idx, data, output, errors, returncode>>
instVars == <<last_duration, _last_time, durationBy>>
osVars == <<child, pipe, written, background>>
outVars == <<log, stderr_printed, inner, result>>
engineVars ==
  <<pc, callVars, loopVars, instVars, osVars, outVars, clock>>
vars == <<metaVars, engineVars>>

\* ------------------------------------------------------------- the command

Commands ==
  {"prog", "/nonexistent/prog", "echo hi; daemon &",
   "printf '\\377'; exec 1>&-; prog"}
Nonexistent(c) == c = "/nonexistent/prog"
\* the shell writes a line to its stdout, starts a process in the
\* background, which inherits the shell's stdout and stderr, and exits
LeavesBackground(c) == c = "echo hi; daemon &"
\* the command writes a byte that is not UTF-8 to its stdout, closes its
\* stdout and goes on running
WritesBinary(c) == c = "printf '\\377'; exec 1>&-; prog"

\* the exit status a shell gives a command it cannot find
NotFoundStatus == 127

\* Popen without a shell: the exec of a program that does not exist fails
\* in Popen itself
PopenRaisesWithoutShell(c, osfails) == osfails \/ Nonexistent(c)

\* shell=True: Popen execs /bin/sh -c cmd, and raises only when the OS
\* cannot create that shell process; the shell itself reports a command
\* it cannot find on its stderr and exits with NotFoundStatus
PopenRaises(c, osfails) == osfails

ExitCodes(c) ==
  IF Nonexistent(c) THEN {NotFoundStatus}
  ELSE IF LeavesBackground(c) \/ WritesBinary(c) THEN {0}
  ELSE {0, 1}

MayWrite(c, flow, nwrites) ==
  IF Nonexistent(c) THEN flow = "stderr" /\ nwrites = 0
  ELSE IF LeavesBackground(c) \/ WritesBinary(c)
  THEN flow = "stdout" /\ nwrites = 0
  ELSE TRUE

MayClose(c, flow, nwrites) ==
  IF Nonexistent(c) \/ LeavesBackground(c) THEN FALSE
  ELSE IF WritesBinary(c) THEN flow = "stdout" /\ nwrites = 1
  ELSE TRUE

MayExit(c, nwrites, bg, closed) ==
  IF Nonexistent(c) THEN nwrites = 1
  ELSE IF LeavesBackground(c) THEN nwrites = 1 /\ bg # "none"
  ELSE IF WritesBinary(c) THEN nwrites = 1 /\ closed["stdout"]
  ELSE TRUE

\* a read of the flow finds the end of the file: every write end of the
\* pipe is closed, the child's and the one a background process inherited
EndOfFile(flow) == child.closed[flow] /\ background # "running"

NoChild ==
  [alive |-> FALSE, want |-> "none", nwrites |-> 0, code |-> <<>>,
   closed |-> [f \in Flows |-> FALSE]]

NoBytes == [f \in Flows |-> <<>>]

\* ---------------------------------------------------------------- the child

\* the child starts a write to a pipe that is full: it blocks in write()
ChildBlock(flow) ==
  /\ child.alive /\ child.want = "none" /\ ~child.closed[flow]
  /\ child.nwrites < MaxWrites
  /\ MayWrite(cmd, flow, child.nwrites)
  /\ Len(pipe[flow]) >= PipeCap
  /\ child' = [child EXCEPT !.want = flow]
  /\ UNCHANGED <<pc, callVars, loopVars, instVars, pipe, written, background,
                 outVars, clock, metaVars>>

\* the k-th line the child writes, one chunk
Line(k) == <<k, NewlineByte>>

\* the k-th chunk the command writes
Chunk(c, k) == IF WritesBinary(c) THEN <<InvalidByte>> ELSE Line(k)

\* a write of one chunk completes
ChildWrite(flow) ==
  /\ child.alive /\ child.want \in {"none", flow} /\ ~child.closed[flow]
  /\ child.nwrites < MaxWrites
  /\ MayWrite(cmd, flow, child.nwrites)
  /\ Len(pipe[flow]) < PipeCap
  /\ pipe' = [pipe EXCEPT ![flow] = Append(@, Chunk(cmd, child.nwrites + 1))]
  /\ written' = [written EXCEPT ![flow] = @ \o Chunk(cmd, child.nwrites + 1)]
  /\ child' = [child EXCEPT !.want = "none", !.nwrites = @ + 1]
  /\ UNCHANGED <<pc, callVars, loopVars, instVars, background, outVars, clock,
                 metaVars>>

\* the child closes one of its streams and goes on (exec 1>&-)
ChildClose(flow) ==
  /\ child.alive /\ child.want = "none" /\ ~child.closed[flow]
  /\ MayClose(cmd, flow, child.nwrites)
  /\ child' = [child EXCEPT !.closed[flow] = TRUE]
  /\ UNCHANGED <<pc, callVars, loopVars, instVars, pipe, written, background,
                 outVars, clock, metaVars>>

\* the child exits: both write ends are closed
ChildExit(code) ==
  /\ child.alive /\ child.want = "none"
  /\ code \in ExitCodes(cmd)
  /\ MayExit(cmd, child.nwrites, background, child.closed)
  /\ child' = [child EXCEPT !.alive = FALSE, !.code = <<code>>,
                            !.closed = [f \in Flows |-> TRUE]]
  /\ UNCHANGED <<pc, callVars, loopVars, instVars, pipe, written, background,
                 outVars, clock, metaVars>>

\* the shell starts the background process (daemon &)
ChildFork ==
  /\ child.alive /\ child.want = "none"
  /\ LeavesBackground(cmd) /\ child.nwrites = 1
  /\ background = "none"
  /\ background' = "running"
  /\ UNCHANGED <<pc, callVars, loopVars, instVars, child, pipe, written,
                 outVars, clock, metaVars>>

\* the background process ends, whenever it does; nothing makes it end
BackgroundEnds ==
  /\ background = "running"
  /\ background' = "ended"
  /\ UNCHANGED <<pc, callVars, loopVars, instVars, child, pipe, written,
                 outVars, clock, metaVars>>

\* time.time() advances while a call is in progress
Tick ==
  /\ pc # "idle"
  /\ clock < MaxClock
  /\ clock' = clock + 1
  /\ UNCHANGED <<pc, callVars, loopVars, instVars, osVars, outVars, metaVars>>

\* --------------------------------------------------------------- the engine

\* select.select(inputs, [], [], 1): the watched flows that can be read
\* without blocking (data in the pipe, or the end of the file), in the
\* order of inputs; the empty list when the second passes with none
select(watched, pipes) ==
  filter(watched, {f \in Flows : pipes[f] # <<>> \/ EndOfFile(f)})

\* StringIO.write
write(buffer, text) == StringIO(buffer.v \o text)

\* the test of the inner loop: while readable and inputs
InnerLoopGoesOn(rd, inp) == rd # <<>> /\ inp # <<>>

\* lines 211-214, if verbose: errors is rebound to the stripped text and
\* the text is printed when it is not empty
VerboseBlock(vb, errs) ==
  IF ~vb THEN [raised |-> FALSE, errors |-> errs, printed |-> <<>>]
  ELSE IF errs.t = "unbound"
  THEN [raised |-> TRUE, errors |-> errs, printed |-> <<>>]
  ELSE [raised |-> FALSE, errors |-> Str(strip(errs.v)),
        printed |-> strip(errs.v)]

\* errors.getvalue() at line 218
GetValue(errs) ==
  CASE errs.t = "unbound" -> Raise("UnboundLocalError", "errors", None)
    [] errs.t = "str" -> Raise("AttributeError", "getvalue", None)
    [] OTHER -> Raise("RuntimeError", "", Str(errs.v))

\* lines 216-220: the outcome of _execute by exit code
ClassifyExit(rc, ie, out, errs) ==
  IF rc # <<0>>
  THEN IF ~ie THEN GetValue(errs) ELSE Return(None)
  ELSE IF out.t = "unbound"
       THEN Raise("UnboundLocalError", "output", None)
       ELSE Return(out)

\* lines 211-220
ExecuteTail(vb, ie, rc, out, errs) ==
  LET v == VerboseBlock(vb, errs) IN
    IF v.raised
    THEN [inner |-> Raise("UnboundLocalError", "errors", None),
          errors |-> errs, printed |-> <<>>]
    ELSE [inner |-> ClassifyExit(rc, ie, out, v.errors),
          errors |-> v.errors, printed |-> v.printed]

\* what execute returns to its caller once _execute has returned: the
\* value of _execute is dropped at line 155 and execute ends without a
\* return statement
ExecuteReturns(innerValue) == Return(None)

\* lines 156-159, reached only when _execute returned
StoresDuration(innerOutcome) == innerOutcome.t = "return"

\* execute, lines 153-155, up to the call of Popen
Execute(c, ie, vb, osfails) ==
  /\ pc = "idle"
  /\ callNo < MaxCalls
  /\ callNo' = callNo + 1
  /\ cmd' = c /\ ignore_errors' = ie /\ verbose' = vb /\ oserr' = osfails
  /\ t1' = clock
  /\ log' = Append(log, <<"name>">>)
  /\ child' = NoChild /\ pipe' = NoBytes /\ written' = NoBytes
  /\ background' = "none"
  /\ inputs' = <<>> /\ readable' = <<>> /\ idx' = 0 /\ data' = <<>>
  /\ output' = Unbound /\ errors' = Unbound /\ returncode' = <<>>
  /\ stderr_printed' = <<>>
  /\ inner' = Pending /\ result' = Pending
  /\ pc' = "popen"
  /\ UNCHANGED <<instVars, clock, metaVars>>

\* _execute, lines 175-183: Popen raises, the RuntimeError leaves _execute
\* and execute
PopenFails ==
  /\ pc = "popen"
  /\ PopenRaises(cmd, oserr)
  /\ inner' = Raise("RuntimeError", FailedToExecute, Str(<<cmd, "OSError">>))
  /\ result' = inner'
  /\ pc' = "idle"
  /\ UNCHANGED <<callVars, loopVars, instVars, osVars, log, stderr_printed,
                 clock, metaVars>>

\* _execute, lines 176-185: the child runs from here on
Popen ==
  /\ pc = "popen"
  /\ ~PopenRaises(cmd, oserr)
  /\ child' = [NoChild EXCEPT !.alive = TRUE]
  /\ inputs' = <<"stdout", "stderr">>
  /\ pc' = "poll"
  /\ UNCHANGED <<callVars, readable, idx, data, output, errors, returncode,
                 instVars, pipe, written, background, outVars, clock,
                 metaVars>>

\* line 186: while process_.poll() is None
Poll ==
  /\ pc = "poll"
  /\ IF child.alive
     THEN pc' = "select" /\ UNCHANGED returncode
     ELSE pc' = "classify" /\ returncode' = child.code
  /\ UNCHANGED <<callVars, inputs, readable, idx, data, output, errors,
                 instVars, osVars, outVars, clock, metaVars>>

\* lines 193-197: select, two fresh accumulators, the inner loop's test
SelectOuter ==
  /\ pc = "select"
  /\ readable' = select(inputs, pipe)
  /\ output' = StringIO(<<>>)
  /\ errors' = StringIO(<<>>)
  /\ idx' = 1
  /\ pc' = IF InnerLoopGoesOn(readable', inputs) THEN "read" ELSE "poll"
  /\ UNCHANGED <<callVars, inputs, data, returncode, instVars, osVars,
                 outVars, clock, metaVars>>

\* line 199, flow.read(): a read to the end of the file; it takes what is
\* in the pipe and goes on waiting
ReadSome ==
  /\ pc = "read"
  /\ LET flow == readable[idx] IN
       /\ pipe[flow] # <<>>
       /\ data' = data \o concat(pipe[flow])
       /\ pipe' = [pipe EXCEPT ![flow] = <<>>]
  /\ UNCHANGED <<pc, callVars, inputs, readable, idx, output, errors,
                 returncode, instVars, child, written, background, outVars,
                 clock, metaVars>>

\* lines 199-209: read() returns at the end of the file; the flow is no
\* longer watched when nothing was read; the text goes to the flow's
\* accumulator; then the next readable flow
ReadEOF ==
  /\ pc = "read"
  /\ LET flow == readable[idx] IN
       /\ pipe[flow] = <<>>
       /\ EndOfFile(flow)
       /\ decode(data) # UnicodeDecodeError
       /\ inputs' = IF data = <<>> THEN remove(inputs, flow) ELSE inputs
       /\ output' = IF flow = "stdout" THEN write(output, decode(data))
                    ELSE output
       /\ errors' = IF flow = "stderr" THEN write(errors, decode(data))
                    ELSE errors
  /\ data' = <<>>
  /\ IF idx < Len(readable)
     THEN idx' = idx + 1 /\ pc' = "read"
     ELSE idx' = idx /\ pc' = "select_inner"
  /\ UNCHANGED <<callVars, readable, returncode, instVars, osVars, outVars,
                 clock, metaVars>>

\* lines 199-208: read() returns at the end of the file with bytes that
\* are not UTF-8; decode raises, and the UnicodeDecodeError leaves _execute
\* and execute
ReadEOFDecodeFails ==
  /\ pc = "read"
  /\ LET flow == readable[idx] IN
       /\ pipe[flow] = <<>>
       /\ EndOfFile(flow)
  /\ decode(data) = UnicodeDecodeError
  /\ inner' = Raise("UnicodeDecodeError", "", None)
  /\ result' = inner'
  /\ pc' = "idle"
  /\ UNCHANGED <<callVars, loopVars, instVars, osVars, log, stderr_printed,
                 clock, metaVars>>

\* lines 209 and 197: select again, and the inner loop's test
SelectInner ==
  /\ pc = "select_inner"
  /\ readable' = select(inputs, pipe)
  /\ idx' = 1
  /\ pc' = IF InnerLoopGoesOn(readable', inputs) THEN "read" ELSE "poll"
  /\ UNCHANGED <<callVars, inputs, data, output, errors, returncode,
                 instVars, osVars, outVars, clock, metaVars>>

\* _execute, lines 211-220, and execute, lines 155-159
Classify ==
  /\ pc = "classify"
  /\ LET tail == ExecuteTail(verbose, ignore_errors, returncode, output,
                             errors)
     IN
       /\ errors' = tail.errors
       /\ stderr_printed' = tail.printed
       /\ inner' = tail.inner
       /\ IF StoresDuration(tail.inner)
          THEN /\ result' = ExecuteReturns(tail.inner.v)
               /\ last_duration' = <<clock - t1>>
               /\ _last_time' = <<clock - t1>>
               /\ durationBy' = callNo
               /\ log' = Append(log, <<"Took", clock - t1>>)
          ELSE /\ result' = tail.inner
               /\ UNCHANGED <<instVars, log>>
  /\ pc' = "idle"
  /\ UNCHANGED <<callVars, inputs, readable, idx, data, output, returncode,
                 osVars, clock, metaVars>>

InitEngine ==
  /\ pc = "idle" /\ callNo = 0
  /\ cmd = "prog" /\ ignore_errors = FALSE /\ verbose = FALSE
  /\ oserr = FALSE /\ t1 = 0 /\ clock = 0
  /\ inputs = <<>> /\ readable = <<>> /\ idx = 0 /\ data = <<>>
  /\ output = Unbound /\ errors = Unbound /\ returncode = <<>>
  /\ last_duration = <<>> /\ _last_time = <<>> /\ durationBy = 0
  /\ child = NoChild /\ pipe = NoBytes /\ written = NoBytes
  /\ background = "none"
  /\ log = <<>> /\ stderr_printed = <<>>
  /\ inner = Pending /\ result = Pending

\* ---------------------------------------------------- the class statements

\* class ConvBase(metaclass=ConvMeta), lines 102-122
ConvBaseClass ==
  [name |-> ConvBaseName, base |-> 0,
   dict |-> [input_ext |-> None, output_ext |-> None,
             input_fmt |-> Absent, output_fmt |-> Absent]]

NameChars == {"a", "2"}
Names ==
  {ConvBaseName} \cup
  UNION {[1..n -> NameChars] : n \in 1..MaxNameLen}

ExtStrings == {<<"f">>, <<".", "f">>}
Elements == {Str(e) : e \in ExtStrings} \cup {IntElem}
ElementSeqs == UNION {[1..n -> Elements] : n \in 0..MaxSeqLen}
NoDuplicates(elems) ==
  \A i, j \in 1..Len(elems) : elems[i] = elems[j] => i = j

\* what a class body may bind input_ext or output_ext to; a set is given
\* by its elements in the order the set iterates them
StrDecls == {Str(e) : e \in ExtStrings}
Decls ==
  StrDecls \cup {None}
    \cup {Seq_("list", q) : q \in ElementSeqs}
    \cup {Seq_("tuple", q) : q \in ElementSeqs}
    \cup {Seq_("set", q) : q \in {r \in ElementSeqs : NoDuplicates(r)}}

\* a class statement: type.__new__ makes the class from the name, the base
\* and the namespace of the body, ConvMeta.__init__ checks it, and the
\* name is bound unless a TypeError leaves the statement
ClassStatement(name, base, input_ext, output_ext) ==
  LET cls == [name |-> name, base |-> base,
              dict |-> [input_ext |-> input_ext, output_ext |-> output_ext,
                        input_fmt |-> Absent, output_fmt |-> Absent]]
  IN \E r \in {ConvMeta__init__(cls, types)} :
    /\ stmt' = cls
    /\ defined' = [cls |-> r.cls, raised |-> r.raised]
    /\ types' = IF r.raised = NoError THEN Append(types, r.cls) ELSE types
    /\ log' = IF r.warned THEN Append(log, <<"skip class", name>>) ELSE log
    /\ UNCHANGED <<pc, callVars, loopVars, instVars, osVars, stderr_printed,
                   inner, result, clock>>

\* a converter class derived from ConvBase; a TypeError ends the load of
\* the module, so no class statement follows one that raised
DefineConverter ==
  /\ Len(types) = 1
  /\ defined.raised = NoError
  /\ \E name \in Names, input_ext \in Decls \cup {Absent},
        output_ext \in Decls \cup {Absent} :
       ClassStatement(name, 1, input_ext, output_ext)

\* a class derived from that converter (one that passed the checks): each
\* side is inherited, or bound again to the value the parent has
SubDecls(attr) == {Absent, getattr(types[2], attr, types)}

DefineSubConverter ==
  /\ Len(types) = 2
  /\ defined.raised = NoError
  /\ ~Exempt(types[2].name)
  /\ \E name \in Names, input_ext \in SubDecls("input_ext"),
        output_ext \in SubDecls("output_ext") :
       ClassStatement(name, 2, input_ext, output_ext)

InitMeta ==
  /\ types = <<ConvBaseClass>>
  /\ stmt = ConvBaseClass
  /\ defined = [cls |-> ConvBaseClass, raised |-> NoError]

Init == InitEngine /\ InitMeta

NextMeta ==
  \/ DefineConverter
  \/ DefineSubConverter

SpecMeta == Init /\ [][NextMeta]_vars

Next ==
  \/ \E c \in Commands, ie \in BOOLEAN, vb \in BOOLEAN, osfails \in BOOLEAN :
       Execute(c, ie, vb, osfails)
  \/ PopenFails
  \/ Popen
  \/ Poll
  \/ SelectOuter
  \/ ReadSome
  \/ ReadEOF
  \/ ReadEOFDecodeFails
  \/ SelectInner
  \/ Classify
  \/ \E flow \in Flows : ChildBlock(flow)
  \/ \E flow \in Flows : ChildWrite(flow)
  \/ \E flow \in Flows : ChildClose(flow)
  \/ \E code \in {0, 1, NotFoundStatus} : ChildExit(code)
  \/ ChildFork
  \/ BackgroundEnds
  \/ Tick

Spec == Init /\ [][Next]_vars

\* the steps of the thread that called execute
EngineNext ==
  \/ PopenFails
  \/ Popen
  \/ Poll
  \/ SelectOuter
  \/ ReadSome
  \/ ReadEOF
  \/ ReadEOFDecodeFails
  \/ SelectInner
  \/ Classify

\* the thread that called execute is scheduled: a step of it that stays
\* possible is taken (a select with a timeout returns, a read whose data
\* or end of file has come returns). Nothing obliges the child or a
\* background process to take a step
SpecLive == Init /\ [][Next]_vars /\ WF_vars(EngineNext)

\* ------------------------------------------------- the engine: the claims

\* the call of execute made last has returned or raised
Finished == pc = "idle" /\ callNo > 0

\* ... and its child process ran and exited
FinishedAfterExit == Finished /\ child.code # <<>>

\* the RuntimeError of lines 181-183 (the spec's SpawnError)
IsSpawnError(r) ==
  r.t = "raise" /\ r.exc = "RuntimeError" /\ r.head = FailedToExecute

\* the RuntimeError of line 218 (the spec's CommandFailedError)
IsCommandFailedError(r) ==
  r.t = "raise" /\ r.exc = "RuntimeError" /\ r.head = ""

\* an accumulator holds exactly this text (one that was never created
\* holds nothing)
Holds(acc, text) == IF acc.t = "unbound" THEN text = <<>> ELSE acc.v = text

\* C1: whenever the child exited with code 0, execute returns the stdout
\* accumulator to its caller, whatever ignore_errors and verbose are.
C1_ExecuteReturnsStdout ==
  (FinishedAfterExit /\ child.code = <<0>>)
    => (output.t = "StringIO" /\ result = Return(output))

\* C2: whenever the child exited with a non-zero code and ignore_errors
\* is false, execute raises the CommandFailedError carrying the text of
\* the stderr accumulator, for verbose false and verbose true alike.
C2_NonZeroRaisesCommandFailed ==
  (FinishedAfterExit /\ child.code # <<0>> /\ ~ignore_errors)
    => /\ IsCommandFailedError(result)
       /\ result.v.t = "str"
       /\ errors.t = "StringIO" => result.v.v = errors.v
       /\ errors.t = "str" => strip(result.v.v) = errors.v

\* C3: whenever the child exited with a non-zero code and ignore_errors
\* is true, execute returns normally, with no output, whatever verbose is
\* and whenever the child exited.
C3_IgnoredFailureReturns ==
  (FinishedAfterExit /\ child.code # <<0>> /\ ignore_errors)
    => result = Return(None)

\* C4: when execute finishes after the child has exited, the stdout
\* accumulator holds all the child wrote to stdout and the stderr
\* accumulator all it wrote to stderr, in write order (the stderr text
\* stripped where verbose has rebound it).
C4_AccumulatorsComplete ==
  FinishedAfterExit
    => /\ Holds(output, decode(written["stdout"]))
       /\ IF errors.t = "str"
          THEN errors.v = strip(decode(written["stderr"]))
          ELSE Holds(errors, decode(written["stderr"]))

\* the child is blocked in a write to a full pipe
ChildBlockedOn(flow) ==
  child.alive /\ child.want = flow /\ Len(pipe[flow]) >= PipeCap

\* the engine is blocked in flow.read(): nothing to take, and the end of
\* the file comes only when the child closes the flow
EngineBlockedOn(flow) ==
  /\ pc = "read" /\ readable[idx] = flow
  /\ pipe[flow] = <<>> /\ ~EndOfFile(flow)

\* C5: in no reachable state is the child blocked writing to one full pipe
\* while the engine is blocked in a read on the other pipe (no two-pipe
\* deadlock).
C5_NoTwoPipeDeadlock ==
  \A flow \in Flows : ~(ChildBlockedOn(flow) /\ EngineBlockedOn(Other(flow)))

\* C6 as claimed: execute on a command naming a nonexistent executable
\* fails with the SpawnError, for every ignore_errors.
C6_NonexistentRaisesSpawnError ==
  (Finished /\ Nonexistent(cmd)) => IsSpawnError(result)

\* C6 as amended: on a command that names a nonexistent executable,
\* execute fails with the SpawnError (carrying the command and the OS
\* error) exactly when the OS cannot create the shell process; otherwise
\* the shell runs and exits with status 127 and the call ends as a call
\* whose child exited with a non-zero code; in no case does _execute or
\* execute return output.
C6_NonexistentEndsAsNonZeroExit ==
  (Finished /\ Nonexistent(cmd))
    => /\ oserr => result = Raise("RuntimeError", FailedToExecute,
                                  Str(<<cmd, "OSError">>))
       /\ ~oserr => (~IsSpawnError(result) /\ child.code = <<NotFoundStatus>>
                     /\ returncode = child.code)
       /\ inner.t = "return" => inner.v = None
       /\ result.t = "return" => result.v = None

\* C6's case: the shell was created for a nonexistent executable, wrote its
\* message and exited, and the call raised the error of a non-zero exit
C6_Witness ==
  /\ Finished /\ Nonexistent(cmd) /\ ~oserr
  /\ IsCommandFailedError(result)
  /\ result.v.v = decode(written["stderr"]) /\ result.v.v # <<>>

\* C7: after every call of execute that spawned a process and ended in a
\* normal return, an ignored failure or the CommandFailedError,
\* last_duration holds the duration of that call.
C7_DurationStoredWhateverOutcome ==
  (FinishedAfterExit /\ (result.t = "return" \/ IsCommandFailedError(result)))
    => (durationBy = callNo /\ last_duration # <<>>)

\* ------------------------------------------------ ConvMeta: the claims

Contains2(chars) == \E i \in 1..Len(chars) : chars[i] = "2"
BeginsWithDot(chars) == Len(chars) > 0 /\ chars[1] = "."
IsSequenceOfStr(d) ==
  d.t \in {"list", "tuple", "set"} /\ \A i \in 1..Len(d.v) : d.v[i].t = "str"
ValidDecl(d) == d.t = "str" \/ IsSequenceOfStr(d)
\* the strings a declaration gives, in order
Strings(d) == IF d.t = "str" THEN <<d.v>> ELSE [i \in 1..Len(d.v) |-> d.v[i].v]
ExtAttrs == {"input_ext", "output_ext"}

\* C8: a class statement whose name contains '2' and whose two extension
\* declarations (its own or inherited) are a string or a list, tuple or
\* set of strings passes the checks, and the class then has, on each side,
\* a sequence of strings that each begin with '.': the declared strings in
\* order, with a '.' put before exactly those that did not begin with one.
C8_ValidDeclarationsNormalized ==
  (/\ Contains2(stmt.name)
   /\ \A attr \in ExtAttrs : ValidDecl(getattr(stmt, attr, types)))
    => /\ defined.raised = NoError
       /\ \A attr \in ExtAttrs :
            LET declared == Strings(getattr(stmt, attr, types))
                attached == getattr(defined.cls, attr, types)
            IN /\ IsSequenceOfStr(attached)
               /\ Len(attached.v) = Len(declared)
               /\ \A i \in 1..Len(declared) :
                    /\ BeginsWithDot(attached.v[i].v)
                    /\ attached.v[i].v =
                         IF BeginsWithDot(declared[i]) THEN declared[i]
                         ELSE <<".">> \o declared[i]

\* C8's case: a list mixing a dotted and an undotted string on the input
\* side, an undotted string on the output side, both rewritten
C8_Witness ==
  /\ Contains2(stmt.name)
  /\ stmt.dict["input_ext"] = Seq_("list", <<Str(<<".", "f">>), Str(<<"f">>)>>)
  /\ stmt.dict["output_ext"].t = "str" /\ stmt.dict["output_ext"].v = <<"f">>
  /\ defined.raised = NoError
  /\ defined.cls.dict["input_ext"] =
       Seq_("list", <<Str(<<".", "f">>), Str(<<".", "f">>)>>)
  /\ defined.cls.dict["output_ext"] = Seq_("tuple", <<Str(<<".", "f">>)>>)

\* C9: a class derived from a converter that passed the checks, which
\* inherits the parent's extensions or binds them again to the parent's
\* values, passes the checks and has the parent's extensions unchanged, on
\* both sides (the checks applied to their own result change nothing).
C9_NormalizationIdempotent ==
  (stmt.base = 2 /\ Contains2(stmt.name))
    => /\ defined.raised = NoError
       /\ \A attr \in ExtAttrs :
            getattr(defined.cls, attr, types) = getattr(types[2], attr, types)

\* C9's case: the parent's input side is a list the checks rewrote and is
\* inherited, its output side is the tuple made of a string and is bound
\* again
C9_Witness ==
  /\ stmt.base = 2 /\ Contains2(stmt.name)
  /\ defined.raised = NoError
  /\ stmt.dict["input_ext"].t = "absent"
  /\ types[2].dict["input_ext"].t = "list" /\ Len(types[2].dict["input_ext"].v) = 2
  /\ stmt.dict["output_ext"].t = "tuple" /\ Len(stmt.dict["output_ext"].v) = 1
  /\ getattr(defined.cls, "input_ext", types) = types[2].dict["input_ext"]

\* C10: a class statement whose name is not 'ConvBase' and contains no '2'
\* raises the TypeError of the naming convention, whatever its extension
\* declarations are, and no input_fmt or output_fmt is set on the class.
C10_NameWithout2Rejected ==
  (stmt.name # ConvBaseName /\ ~Contains2(stmt.name))
    => /\ defined.raised = TypeError(MustFollowConvention, <<>>, "")
       /\ defined.cls.dict["input_fmt"].t = "absent"
       /\ defined.cls.dict["output_fmt"].t = "absent"

\* C10's case: a name without '2' on a class whose output side is None
C10_Witness ==
  /\ stmt.name = <<"a", "a">>
  /\ stmt.dict["input_ext"].t = "str"
  /\ stmt.dict["output_ext"].t = "None"
  /\ defined.raised.exc = "TypeError"
  /\ defined.raised.text = MustFollowConvention

C12_ExitedChildLeadsToReturn ==
  (pc # "idle" /\ child.code # <<>>) ~> (pc = "idle")

\* C13: when a class statement raises, on the naming check or on either
\* side's extension check, the class is as the statement declared it:
\* input_ext and output_ext are what the body bound them to and no
\* input_fmt or output_fmt is set; in particular an error on the output
\* side leaves the input side as declared.
C13_FailureLeavesTypeUntouched ==
  defined.raised # NoError => defined.cls.dict = stmt.dict

\* C14: a class statement that passes the checks leaves the class with a
\* non-empty ordered sequence (a list or a tuple) on the input side and
\* one on the output side; an empty list, tuple or set never ends as the
\* extensions of a class that passed.
C14_RegisteredExtensionsNonEmpty ==
  (stmt.name # ConvBaseName /\ defined.raised = NoError)
    => \A attr \in ExtAttrs :
         LET attached == getattr(defined.cls, attr, types)
         IN attached.t \in {"list", "tuple"} /\ attached.v # <<>>

\* C15: a class statement whose name contains '2' and that passes the
\* checks sets input_fmt to the upper case of the name's text before its
\* first '2' and output_fmt to the upper case of all the text after that
\* '2', later '2' characters included.
C15_FormatsSplitAtFirst2 ==
  (Contains2(stmt.name) /\ defined.raised = NoError)
    => \E k \in 1..Len(stmt.name) :
         /\ stmt.name[k] = "2"
         /\ \A j \in 1..(k - 1) : stmt.name[j] # "2"
         /\ defined.cls.dict["input_fmt"] =
              Str(upper(SubSeq(stmt.name, 1, k - 1)))
         /\ defined.cls.dict["output_fmt"] =
              Str(upper(SubSeq(stmt.name, k + 1, Len(stmt.name))))

\* C15's case: the name a22 passes, with the formats A and 2
C15_Witness ==
  /\ stmt.name = <<"a", "2", "2">>
  /\ defined.raised = NoError
  /\ defined.cls.dict["input_fmt"] = Str(<<"A">>)
  /\ defined.cls.dict["output_fmt"] = Str(<<"2">>)

\* C16: in every state where the call of execute made last has returned
\* or raised after Popen made a child process, that child has exited.
C16_FinishedMeansChildExited ==
  (Finished /\ ~IsSpawnError(result)) => (~child.alive /\ child.code # <<>>)

\* C17: whenever the child exits, before the first poll included, output
\* and errors are both bound to an accumulator when the exit code is
\* classified, and a call whose child ran and exited ends in a return or in
\* the CommandFailedError, never in another exception.
C17_AccumulatorsBoundAtClassify ==
  /\ pc = "classify" => (output.t = "StringIO" /\ errors.t = "StringIO")
  /\ FinishedAfterExit
       => (result.t = "return" \/ IsCommandFailedError(result))

====
